---- MODULE Spec2Model ----
(***************************************************************************)
(* Order lifecycle of src/app.py: the webhook handler (OpenPosition), the  *)
(* position checker (ReconcilePositions), manual_close / close_all, the    *)
(* broker gateway calls they make and the DynamoDB position store.         *)
(*                                                                         *)
(* The broker and the store are the environment.  Every broker call       *)
(* (place, cancel, status) and every store write can fail, as the          *)
(* try/except blocks of the source allow; store reads and deletes are      *)
(* taken to succeed.                                                       *)
(***************************************************************************)
EXTENDS Integers, Sequences, FiniteSets, TLC

VARIABLES store, book, wh, ck, mc, po

vars == <<store, book, wh, ck, mc, po>>

(***************************************************************************)
(* Bounds of the model                                                     *)
(***************************************************************************)
MaxQty == 3
MaxIds == 15
MaxResp == 5
MaxPolls == 2

(***************************************************************************)
(* Program constants                                                       *)
(***************************************************************************)
MAX_ORDER_RETRIES == 3

Symbols == {"TEST"}
Actions == {"BUY", "SELL", "HOLD"}
SlPrices == {0, 95}
TpPrices == {0, 110}
PartialTpPrices == {0, 105}

\* order ids are opaque; 0 stands for None
NoId == 0
IdSpace == 1..MaxIds

(***************************************************************************)
(* Order data, as the dictionaries the handlers send to place_order        *)
(***************************************************************************)
NoData == [quantity |-> 0, order_type |-> "NONE", transaction_type |-> "NONE",
           price |-> 0, trigger_price |-> 0]

market_order(qty, side) ==
    [quantity |-> qty, order_type |-> "MARKET", transaction_type |-> side,
     price |-> 0, trigger_price |-> 0]

limit_order(qty, side, price) ==
    [quantity |-> qty, order_type |-> "LIMIT", transaction_type |-> side,
     price |-> price, trigger_price |-> 0]

slm_order(qty, side, trigger) ==
    [quantity |-> qty, order_type |-> "SL-M", transaction_type |-> side,
     price |-> 0, trigger_price |-> trigger]

(***************************************************************************)
(* place_order: one broker response per call level.                        *)
(*   "ok"      HTTP 200 with status success                                *)
(*   "fail"    a response that is not a success                            *)
(*   "exc"     a transport error (the except branch)                       *)
(*   "notoken" get_token() returned None at that call level                *)
(***************************************************************************)
Responses == {"ok", "fail", "exc", "notoken"}

Resp(resps, i) == IF i <= Len(resps) THEN resps[i] ELSE "fail"

may_retry_off_by_one(retry_count) == retry_count <= MAX_ORDER_RETRIES

may_retry(retry_count) == retry_count < MAX_ORDER_RETRIES

RECURSIVE place_order(_, _)
place_order(resps, retry_count) ==
    LET r == Resp(resps, retry_count + 1) IN
    IF r = "notoken" THEN [success |-> FALSE, attempts |-> 0]
    ELSE IF r = "ok" THEN [success |-> TRUE, attempts |-> 1]
    ELSE IF r = "fail" THEN
        IF may_retry(retry_count)
        THEN LET sub == place_order(resps, retry_count + 1)
             IN  [success |-> sub.success, attempts |-> sub.attempts + 1]
        ELSE [success |-> FALSE, attempts |-> 1]
    ELSE \* "exc"
        IF may_retry(retry_count)
        THEN LET sub == place_order(resps, retry_count + 1)
             IN  [success |-> sub.success, attempts |-> sub.attempts + 1]
        ELSE [success |-> FALSE, attempts |-> 1]

\* the broker behaviours the handlers are run against
RunOk == <<"ok">>
RunFail == <<"fail", "exc", "fail", "exc", "fail", "exc">>
RunNoToken == <<"notoken">>
BrokerRuns == {RunOk, RunFail}

(***************************************************************************)
(* verify_order_fill: polls holds the status seen by each poll that fits   *)
(* in ORDER_FILL_TIMEOUT; fq is what get_filled_quantity returns.          *)
(***************************************************************************)
Statuses == {"pending", "complete", "rejected", "cancelled", "unknown"}

RECURSIVE verify_order_fill(_, _, _)
verify_order_fill(order_id, polls, fq) ==
    IF order_id = NoId THEN [is_filled |-> FALSE, filled_qty |-> 0]
    ELSE IF polls = <<>> THEN [is_filled |-> FALSE, filled_qty |-> 0]
    ELSE IF Head(polls) = "complete" THEN [is_filled |-> TRUE, filled_qty |-> fq]
    ELSE IF Head(polls) \in {"rejected", "cancelled"}
         THEN [is_filled |-> FALSE, filled_qty |-> 0]
    ELSE verify_order_fill(order_id, Tail(polls), fq)

PollRuns == {p \in UNION {[1..n -> {"pending", "complete", "rejected"}] : n \in 1..MaxPolls} :
                \A i \in 1..(Len(p) - 1) : p[i] = "pending"}

(***************************************************************************)
(* Position records, as the dictionary position_state of webhook           *)
(***************************************************************************)
NoPos == [action |-> "NONE", qty_requested |-> 0, filled_qty |-> 0,
          entry_order_id |-> NoId,
          sl_order_id |-> NoId, tp_order_id |-> NoId, partial_order_id |-> NoId,
          sl_order_data |-> NoData, tp_order_data |-> NoData,
          partial_order_data |-> NoData, partial_filled |-> FALSE]

position_state(action, qty_requested, filled_qty, entry_order_id) ==
    [NoPos EXCEPT !.action = action, !.qty_requested = qty_requested,
                  !.filled_qty = filled_qty, !.entry_order_id = entry_order_id]

BracketIds(pos) == {pos.sl_order_id, pos.tp_order_id, pos.partial_order_id} \ {NoId}

PosIds(pos) == BracketIds(pos) \cup ({pos.entry_order_id} \ {NoId})

(***************************************************************************)
(* The position store (DynamoDB items of state_type 'position')            *)
(***************************************************************************)
EmptyStore == [s \in {} |-> NoPos]

put_item_alone(st, symbol, pos) == [s \in {symbol} |-> pos]

put_item(st, symbol, pos) == [s \in (DOMAIN st) \cup {symbol} |-> IF s = symbol THEN pos ELSE st[s]]

delete_item(st, symbol) == [s \in (DOMAIN st) \ {symbol} |-> st[s]]

save_position_to_db(st, symbol, pos, ok) == IF ok THEN put_item(st, symbol, pos) ELSE st

delete_position_from_db_kept(st, symbol) == st

delete_position_from_db(st, symbol) == delete_item(st, symbol)

\* <<>> stands for None
get_position_from_db(st, symbol) == IF symbol \in DOMAIN st THEN <<st[symbol]>> ELSE <<>>

get_all_positions_from_db(st) == st

(***************************************************************************)
(* The broker's book of resting orders (LIMIT and SL-M); market orders     *)
(* execute at once and never rest.                                         *)
(***************************************************************************)
EmptyBook == [i \in {} |-> [symbol |-> "", data |-> NoData, status |-> "open"]]

IsResting(data) == data.order_type \in {"LIMIT", "SL-M"}

OpenIds(bk) == {i \in DOMAIN bk : bk[i].status = "open"}

AddOrder(bk, id, symbol, data) ==
    [i \in (DOMAIN bk) \cup {id} |->
        IF i = id THEN [symbol |-> symbol, data |-> data, status |-> "open"] ELSE bk[i]]

\* the book keeps the orders that a stored record or a running invocation
\* still refers to: no handler can name any other order again
Forget(bk, keep) == [i \in (DOMAIN bk) \cap keep |-> bk[i]]

get_order_status(bk, order_id, ok) ==
    IF ok /\ order_id # NoId /\ order_id \in DOMAIN bk THEN bk[order_id].status ELSE "none"

cancel_order(bk, order_id, ok) ==
    IF ok /\ order_id # NoId /\ order_id \in DOMAIN bk /\ bk[order_id].status = "open"
    THEN [bk EXCEPT ![order_id].status = "cancelled"]
    ELSE bk

\* the broker hands out ids that are not in use; the model draws them per
\* kind of order, the smallest free one first
Kinds == <<"ENTRY", "PARTIAL", "TP", "SL", "EXIT">>

KindIndex(kind) == CHOOSE k \in 1..Len(Kinds) : Kinds[k] = kind

IdPool(kind) == {i \in IdSpace : ((i - 1) % Len(Kinds)) + 1 = KindIndex(kind)}

FreshId(used, kind) ==
    CHOOSE i \in IdPool(kind) \ used : \A j \in IdPool(kind) \ used : i <= j

\* one place_order call of a handler: the result, the book after it and the
\* event the handler's log keeps
Place(bk, used, symbol, kind, label, data, run) ==
    LET res == place_order(run, 0)
        id == IF res.success THEN FreshId(used, kind) ELSE NoId
    IN  [success |-> res.success,
         order_id |-> id,
         book |-> IF res.success /\ IsResting(data) THEN AddOrder(bk, id, symbol, data) ELSE bk,
         used |-> used \cup ({id} \ {NoId}),
         ev |-> [label |-> label, data |-> data, success |-> res.success, order_id |-> id]]

exit_action_same_side(action) == action

exit_action(action) == IF action = "BUY" THEN "SELL" ELSE "BUY"

\* emergency_exit_position once the instrument key is resolved
emergency_exit_position(bk, used, symbol, quantity, action, run) ==
    Place(bk, used, symbol, "EXIT", "EMERGENCY EXIT", market_order(quantity, exit_action(action)), run)

(***************************************************************************)
(* Handler invocations.  Each record is the local state of one running     *)
(* invocation: its position in the code, its locals and a log of the       *)
(* broker and store calls it has made.                                     *)
(***************************************************************************)
WhIdle == [pc |-> "idle", symbol |-> "", action |-> "", qty_requested |-> 0,
           sl_price |-> 0, tp_price |-> 0, partial_tp_price |-> 0,
           existing_position |-> <<>>, position_state |-> NoPos,
           placed |-> <<>>, cancels |-> <<>>, saved |-> FALSE, alert |-> "",
           result |-> ""]

CkIdle == [pc |-> "idle", active_positions |-> EmptyStore, todo |-> {},
           symbol |-> "", pos |-> NoPos, branch |-> "",
           placed |-> <<>>, cancels |-> <<>>, saves |-> 0, deleted |-> FALSE]

McIdle == [pc |-> "idle", op |-> "", active_positions |-> EmptyStore, todo |-> {},
           symbol |-> "", pos |-> NoPos,
           placed |-> <<>>, cancels |-> <<>>, deleted |-> FALSE, result |-> ""]

PoIdle == [pc |-> "idle", resps |-> <<>>, success |-> FALSE, attempts |-> 0]

EvIds(evs) == {evs[i].order_id : i \in 1..Len(evs)} \ {NoId}

SeqIds(ids) == {ids[i] : i \in 1..Len(ids)} \ {NoId}

StoreIds(st) == UNION {PosIds(st[s]) : s \in DOMAIN st}

\* every order id some record or running invocation still refers to
Refs(st, w, c, m) ==
    StoreIds(st)
    \cup PosIds(w.position_state) \cup EvIds(w.placed) \cup SeqIds(w.cancels)
    \cup UNION {PosIds(w.existing_position[i]) : i \in 1..Len(w.existing_position)}
    \cup StoreIds(c.active_positions) \cup PosIds(c.pos)
    \cup EvIds(c.placed) \cup SeqIds(c.cancels)
    \cup StoreIds(m.active_positions) \cup PosIds(m.pos)
    \cup EvIds(m.placed) \cup SeqIds(m.cancels)

Used == (DOMAIN book) \cup Refs(store, wh, ck, mc)

\* Order ids are opaque tokens.  When no invocation is running the ids in use
\* are renamed, order preserved within each kind, to the first ids of their
\* kind: states that differ only in the names of their orders are one state.
Rank(i, ids) == Cardinality({j \in ids : j < i /\ (j - 1) % Len(Kinds) = (i - 1) % Len(Kinds)})

Rename(i, ids) == IF i = NoId THEN NoId ELSE ((i - 1) % Len(Kinds)) + 1 + Len(Kinds) * Rank(i, ids)

RenamePos(pos, ids) ==
    [pos EXCEPT !.entry_order_id = Rename(@, ids), !.sl_order_id = Rename(@, ids),
                !.tp_order_id = Rename(@, ids), !.partial_order_id = Rename(@, ids)]

RenameStore(st, ids) == [s \in DOMAIN st |-> RenamePos(st[s], ids)]

RenameBook(bk, ids) ==
    [j \in {Rename(i, ids) : i \in DOMAIN bk} |->
        bk[CHOOSE i \in DOMAIN bk : Rename(i, ids) = j]]

Init ==
    /\ store = EmptyStore
    /\ book = EmptyBook
    /\ wh = WhIdle
    /\ ck = CkIdle
    /\ mc = McIdle
    /\ po = PoIdle

\* no handler invocation is running
Quiet == wh.pc = "idle" /\ ck.pc = "idle" /\ mc.pc = "idle"

(***************************************************************************)
(* webhook (OpenPosition).  The fields of the signal are drawn where the   *)
(* handler first reads them: symbol and action on receipt, qty with the    *)
(* entry order, the three prices with the bracket.                         *)
(***************************************************************************)
webhook_opposite_action(action) == IF action = "BUY" THEN "SELL" ELSE "BUY"

\* line 598
is_valid_action_any(action) == TRUE

is_valid_action(action) == action \in {"BUY", "SELL"}

\* lines 586-613: parse, validate, resolve the instrument, read the store
WebhookReceive ==
    /\ Quiet
    /\ \E action \in Actions, symbol \in Symbols :
        LET w0 == [WhIdle EXCEPT !.symbol = symbol, !.action = action] IN
        IF ~is_valid_action(action)
        THEN wh' = [w0 EXCEPT !.pc = "done", !.result = "Invalid action"]
        ELSE \E marketOpen \in BOOLEAN :
            IF ~marketOpen
            THEN wh' = [w0 EXCEPT !.pc = "done", !.result = "Market closed",
                                  !.alert = "Order Rejected"]
            ELSE \E keyOk \in BOOLEAN :
                IF ~keyOk
                THEN wh' = [w0 EXCEPT !.pc = "done", !.result = "Symbol not found"]
                ELSE
                    LET existing == get_position_from_db(store, symbol) IN
                    wh' = [w0 EXCEPT !.existing_position = existing,
                                     !.pc = IF existing # <<>> THEN "reversal" ELSE "entry"]
    /\ UNCHANGED <<store, book, ck, mc, po>>

reversal_exit_quantity(existing) == existing.filled_qty

\* lines 614-636: square off the existing position
WebhookReversal ==
    /\ wh.pc = "reversal"
    /\ \E cSl \in BOOLEAN, cTp \in BOOLEAN, cPt \in BOOLEAN, run \in BrokerRuns :
        LET used == Used
            existing == wh.existing_position[1]
            oids == SelectSeq(<<existing.sl_order_id, existing.tp_order_id,
                                existing.partial_order_id>>, LAMBDA o : o # NoId)
            b1 == cancel_order(book, existing.sl_order_id, cSl)
            b2 == cancel_order(b1, existing.tp_order_id, cTp)
            b3 == cancel_order(b2, existing.partial_order_id, cPt)
            exit_order == market_order(reversal_exit_quantity(existing),
                                       webhook_opposite_action(wh.action))
            res == Place(b3, used, wh.symbol, "EXIT", "REVERSAL EXIT", exit_order, run)
        IN
        /\ wh' = [wh EXCEPT !.pc = "entry", !.cancels = oids, !.placed = <<res.ev>>]
        /\ store' = delete_position_from_db(store, wh.symbol)
        /\ book' = res.book
    /\ UNCHANGED <<ck, mc, po>>

\* line 666: the entry counts as filled
entry_confirmed_any_quantity(v) == v.is_filled

entry_confirmed(v) == v.is_filled /\ v.filled_qty # 0

\* lines 638-690: entry order and fill verification
WebhookEntry ==
    /\ wh.pc = "entry"
    /\ \E qty \in 1..MaxQty, run \in BrokerRuns :
        LET entry_order_data == market_order(qty, wh.action)
            \* the locals of the reversal are dead from here on
            w0 == [wh EXCEPT !.existing_position = <<>>, !.cancels = <<>>,
                             !.placed = <<>>, !.qty_requested = qty]
            used0 == Refs(store, w0, ck, mc)
            entry_res == Place(book, used0, wh.symbol, "ENTRY", "ENTRY ORDER", entry_order_data, run)
            w1 == [w0 EXCEPT !.placed = Append(@, entry_res.ev)]
        IN
        IF ~entry_res.success
        THEN wh' = [w1 EXCEPT !.pc = "done", !.result = "Entry order failed",
                              !.alert = "ENTRY FAILED"]
        ELSE \E polls \in PollRuns, fq \in 0..qty :
            LET v == verify_order_fill(entry_res.order_id, polls, fq) IN
            IF ~entry_confirmed(v)
            THEN wh' = [w1 EXCEPT !.pc = "done", !.result = "Entry not filled",
                                  !.alert = "ENTRY NOT FILLED"]
            ELSE wh' = [w1 EXCEPT !.pc = "bracket",
                                  !.position_state = position_state(wh.action, qty,
                                                        v.filled_qty, entry_res.order_id)]
    /\ book' = Forget(book, Refs(store, wh', ck, mc))
    /\ UNCHANGED <<store, ck, mc, po>>

places_partial(partial_tp_price, filled_qty) == partial_tp_price # 0 /\ filled_qty >= 2

partial_quantity_rounded_up(filled_qty) == filled_qty - (filled_qty \div 2)

partial_quantity(filled_qty) == filled_qty \div 2

tp_remaining_qty(partial_tp_price, filled_qty) ==
    filled_qty - (IF partial_tp_price # 0 /\ filled_qty >= 2 THEN filled_qty \div 2 ELSE 0)

sl_quantity_after_partial(filled_qty) == filled_qty - (filled_qty \div 2)

sl_quantity(filled_qty) == filled_qty

\* lines 734, 749-752: a requested stop-loss that was not placed stops the handler
sl_placement_failed_ignored(requested, success) == FALSE

sl_placement_failed(requested, success) == requested /\ ~success

\* lines 692-789: partial and full take-profit, stop-loss, emergency exit, save
WebhookBracket ==
    /\ wh.pc = "bracket"
    /\ \E sl_price \in SlPrices, tp_price \in TpPrices, partial_tp_price \in PartialTpPrices,
          runP \in BrokerRuns, runT \in BrokerRuns, runS \in BrokerRuns :
        LET used == Used
            ps0 == wh.position_state
            filled_qty == ps0.filled_qty
            opposite_action == webhook_opposite_action(wh.action)
            \* PARTIAL TP
            doP == places_partial(partial_tp_price, filled_qty)
            partial_order_data == limit_order(partial_quantity(filled_qty), opposite_action,
                                              partial_tp_price)
            pres == Place(book, used, wh.symbol, "PARTIAL", "PARTIAL TP (50%)",
                          partial_order_data, runP)
            b1 == IF doP THEN pres.book ELSE book
            u1 == IF doP THEN pres.used ELSE used
            ps1 == IF doP /\ pres.success
                   THEN [ps0 EXCEPT !.partial_order_id = pres.order_id,
                                    !.partial_order_data = partial_order_data]
                   ELSE ps0
            \* FULL TP
            remaining_qty == tp_remaining_qty(partial_tp_price, filled_qty)
            doT == tp_price # 0 /\ remaining_qty > 0
            tp_order_data == limit_order(remaining_qty, opposite_action, tp_price)
            tres == Place(b1, u1, wh.symbol, "TP", "FULL TP", tp_order_data, runT)
            b2 == IF doT THEN tres.book ELSE b1
            u2 == IF doT THEN tres.used ELSE u1
            ps2 == IF doT /\ tres.success
                   THEN [ps1 EXCEPT !.tp_order_id = tres.order_id,
                                    !.tp_order_data = tp_order_data]
                   ELSE ps1
            \* STOP LOSS
            doS == sl_price # 0
            sl_order_data == slm_order(sl_quantity(filled_qty), opposite_action, sl_price)
            sres == Place(b2, u2, wh.symbol, "SL", "STOP LOSS", sl_order_data, runS)
            b3 == IF doS THEN sres.book ELSE b2
            ps3 == IF doS /\ sres.success
                   THEN [ps2 EXCEPT !.sl_order_id = sres.order_id,
                                    !.sl_order_data = sl_order_data]
                   ELSE ps2
            w1 == [wh EXCEPT !.sl_price = sl_price, !.tp_price = tp_price,
                             !.partial_tp_price = partial_tp_price,
                             !.position_state = ps3,
                             !.placed = @ \o (IF doP THEN <<pres.ev>> ELSE <<>>)
                                          \o (IF doT THEN <<tres.ev>> ELSE <<>>)
                                          \o (IF doS THEN <<sres.ev>> ELSE <<>>)]
        IN
        IF sl_placement_failed(doS, sres.success)
        THEN \E runE \in BrokerRuns :
            LET eres == emergency_exit_position(b3, sres.used, wh.symbol,
                                                filled_qty, wh.action, runE)
            IN
            /\ wh' = [w1 EXCEPT !.pc = "done", !.placed = Append(@, eres.ev),
                                !.alert = "CRITICAL ERROR",
                                !.result = "SL placement failed - emergency exit"]
            /\ store' = store
            /\ book' = Forget(eres.book, Refs(store', wh', ck, mc))
        ELSE \E saveOk \in BOOLEAN :
            /\ wh' = [w1 EXCEPT !.pc = "done", !.saved = saveOk, !.result = "success"]
            /\ store' = save_position_to_db(store, wh.symbol, ps3, saveOk)
            /\ book' = Forget(b3, Refs(store', wh', ck, mc))
    /\ UNCHANGED <<ck, mc, po>>

\* the response is sent; the invocation's locals are gone
WebhookReturn ==
    /\ wh.pc = "done"
    /\ wh' = WhIdle
    /\ LET ids == Refs(store, WhIdle, ck, mc)
           bk == Forget(book, ids)
       IN  IF ck.pc = "idle" /\ mc.pc = "idle"
           THEN store' = RenameStore(store, ids) /\ book' = RenameBook(bk, ids)
           ELSE store' = store /\ book' = bk
    /\ UNCHANGED <<ck, mc, po>>

(***************************************************************************)
(* check_positions (ReconcilePositions)                                    *)
(***************************************************************************)
\* line 806: read every stored position
CheckStart ==
    /\ Quiet
    /\ LET active_positions == get_all_positions_from_db(store) IN
       ck' = [CkIdle EXCEPT !.pc = "loop", !.active_positions = active_positions,
                            !.todo = DOMAIN active_positions]
    /\ UNCHANGED <<store, book, wh, mc, po>>

\* line 808: the next position of the loop, or the end of the loop
CheckNext ==
    /\ ck.pc = "loop"
    /\ IF ck.todo = {}
       THEN ck' = [ck EXCEPT !.pc = "done"]
       ELSE \E symbol \in ck.todo :
            ck' = [ck EXCEPT !.pc = "partial", !.symbol = symbol,
                             !.pos = ck.active_positions[symbol],
                             !.todo = @ \ {symbol}, !.branch = "",
                             !.placed = <<>>, !.cancels = <<>>,
                             !.saves = 0, !.deleted = FALSE]
    /\ book' = Forget(book, Refs(store, wh, ck', mc))
    /\ UNCHANGED <<store, wh, mc, po>>

check_remaining_qty_full(pos) == pos.filled_qty

check_remaining_qty(pos) == pos.filled_qty - pos.partial_order_data.quantity

adjusted_sl_order(pos) ==
    slm_order(check_remaining_qty(pos), IF pos.action = "BUY" THEN "SELL" ELSE "BUY",
              pos.sl_order_data.trigger_price)

\* line 815
mark_partial_filled_reduced(pos) ==
    [pos EXCEPT !.partial_filled = TRUE,
                !.filled_qty = pos.filled_qty - pos.partial_order_data.quantity]

mark_partial_filled(pos) == [pos EXCEPT !.partial_filled = TRUE]

\* lines 815-858: the partial take-profit was found complete
partial_filled_branch(pos, bk, used, symbol, cOk, keyOk, run, runE) ==
    LET pos1 == mark_partial_filled(pos)
        remaining_qty == check_remaining_qty(pos)
    IN
    IF pos.sl_order_id = NoId
    THEN [pos |-> pos1, book |-> bk, placed |-> <<>>, cancels |-> <<>>, branch |-> "no sl"]
    ELSE
        LET b1 == cancel_order(bk, pos.sl_order_id, cOk) IN
        IF ~keyOk
        THEN [pos |-> pos1, book |-> b1, placed |-> <<>>, cancels |-> <<pos.sl_order_id>>,
              branch |-> "no key"]
        ELSE
            LET new_sl_order == adjusted_sl_order(pos)
                sres == Place(b1, used, symbol, "SL", "ADJUSTED SL", new_sl_order, run)
            IN
            IF sres.success
            THEN [pos |-> [pos1 EXCEPT !.sl_order_id = sres.order_id,
                                       !.sl_order_data = new_sl_order],
                  book |-> sres.book, placed |-> <<sres.ev>>,
                  cancels |-> <<pos.sl_order_id>>, branch |-> "replaced"]
            ELSE
                LET eres == emergency_exit_position(sres.book, sres.used, symbol,
                                                    remaining_qty, pos.action, runE)
                IN  [pos |-> pos1, book |-> eres.book, placed |-> <<sres.ev, eres.ev>>,
                     cancels |-> <<pos.sl_order_id>>, branch |-> "emergency"]

\* lines 809-860: partial take-profit check
CheckPartial ==
    /\ ck.pc = "partial"
    /\ \E stOk \in BOOLEAN :
        LET pos == ck.pos
            status == get_order_status(book, pos.partial_order_id, stOk)
        IN
        IF pos.partial_order_id # NoId /\ ~pos.partial_filled /\ status = "complete"
        THEN \E cOk \in BOOLEAN, keyOk \in BOOLEAN, run \in BrokerRuns, runE \in BrokerRuns,
                saveOk \in BOOLEAN :
            LET r == partial_filled_branch(pos, book, Used, ck.symbol, cOk, keyOk, run, runE) IN
            /\ ck' = [ck EXCEPT !.pc = "tp", !.pos = r.pos, !.branch = r.branch,
                                !.placed = r.placed, !.cancels = r.cancels,
                                !.saves = IF saveOk THEN 1 ELSE 0]
            /\ store' = save_position_to_db(store, ck.symbol, r.pos, saveOk)
            /\ book' = Forget(r.book, Refs(store', wh, ck', mc))
        ELSE /\ ck' = [ck EXCEPT !.pc = "tp"]
             /\ UNCHANGED <<store, book>>
    /\ UNCHANGED <<wh, mc, po>>

\* line 867: the stop-loss cancelled on a take-profit hit is the one of the
\* loop's pos, which the partial branch may have updated in this tick
tp_hit_sl_order_id_as_read(pos, read_pos) == read_pos.sl_order_id

tp_hit_sl_order_id(pos, read_pos) == pos.sl_order_id

\* lines 862-880: full take-profit check
CheckTp ==
    /\ ck.pc = "tp"
    /\ \E stOk \in BOOLEAN :
        LET pos == ck.pos
            status == get_order_status(book, pos.tp_order_id, stOk)
        IN
        IF pos.tp_order_id # NoId /\ status = "complete"
        THEN \E cOk \in BOOLEAN :
            LET sl_order_id == tp_hit_sl_order_id(pos, ck.active_positions[ck.symbol]) IN
            /\ ck' = [ck EXCEPT !.pc = "sl", !.deleted = TRUE,
                                !.cancels = @ \o (IF sl_order_id # NoId
                                                  THEN <<sl_order_id>> ELSE <<>>)]
            /\ store' = delete_position_from_db(store, ck.symbol)
            /\ book' = Forget(cancel_order(book, sl_order_id, cOk),
                              Refs(store', wh, ck', mc))
        ELSE /\ ck' = [ck EXCEPT !.pc = "sl"]
             /\ UNCHANGED <<store, book>>
    /\ UNCHANGED <<wh, mc, po>>

\* lines 887-890: the orders cancelled on a stop-loss hit
sl_hit_cancel_ids_tp_only(pos) == SelectSeq(<<pos.tp_order_id>>, LAMBDA o : o # NoId)

sl_hit_cancel_ids(pos) ==
    SelectSeq(<<pos.tp_order_id, pos.partial_order_id>>, LAMBDA o : o # NoId)

\* lines 882-902: stop-loss check
CheckSl ==
    /\ ck.pc = "sl"
    /\ \E stOk \in BOOLEAN :
        LET pos == ck.pos
            status == get_order_status(book, pos.sl_order_id, stOk)
        IN
        IF pos.sl_order_id # NoId /\ status = "complete"
        THEN \E cTp \in BOOLEAN, cPt \in BOOLEAN :
            LET oids == sl_hit_cancel_ids(pos)
                b1 == IF pos.tp_order_id \in SeqIds(oids)
                      THEN cancel_order(book, pos.tp_order_id, cTp) ELSE book
                b2 == IF pos.partial_order_id \in SeqIds(oids)
                      THEN cancel_order(b1, pos.partial_order_id, cPt) ELSE b1
            IN
            /\ ck' = [ck EXCEPT !.pc = "loop", !.deleted = TRUE, !.cancels = @ \o oids]
            /\ store' = delete_position_from_db(store, ck.symbol)
            /\ book' = Forget(b2, Refs(store', wh, ck', mc))
        ELSE /\ ck' = [ck EXCEPT !.pc = "loop"]
             /\ UNCHANGED <<store, book>>
    /\ UNCHANGED <<wh, mc, po>>

\* line 904: the tick is over
CheckReturn ==
    /\ ck.pc = "done"
    /\ ck' = CkIdle
    /\ LET ids == Refs(store, wh, CkIdle, mc)
           bk == Forget(book, ids)
       IN  IF wh.pc = "idle" /\ mc.pc = "idle"
           THEN store' = RenameStore(store, ids) /\ book' = RenameBook(bk, ids)
           ELSE store' = store /\ book' = bk
    /\ UNCHANGED <<wh, mc, po>>

(***************************************************************************)
(* manual_close and close_all_positions                                    *)
(***************************************************************************)
manual_remaining_qty_full(pos) == pos.filled_qty

manual_remaining_qty(pos) ==
    pos.filled_qty - (IF pos.partial_filled THEN pos.partial_order_data.quantity ELSE 0)

close_all_remaining_qty(pos) ==
    pos.filled_qty - (IF pos.partial_filled THEN pos.partial_order_data.quantity ELSE 0)

CancelAll(bk, pos, cSl, cTp, cPt) ==
    cancel_order(cancel_order(cancel_order(bk, pos.sl_order_id, cSl),
                              pos.tp_order_id, cTp),
                 pos.partial_order_id, cPt)

CancelLog(pos) ==
    SelectSeq(<<pos.sl_order_id, pos.tp_order_id, pos.partial_order_id>>, LAMBDA o : o # NoId)

\* lines 1027-1068: the handler, whatever else is running
ManualCloseRequest ==
    /\ \E symbol \in Symbols :
        LET found == get_position_from_db(store, symbol)
            m0 == [McIdle EXCEPT !.pc = "done", !.op = "manual_close", !.symbol = symbol]
        IN
        IF found = <<>>
        THEN /\ mc' = [m0 EXCEPT !.result = "not found"]
             /\ UNCHANGED <<store, book>>
        ELSE \E cSl \in BOOLEAN, cTp \in BOOLEAN, cPt \in BOOLEAN, keyOk \in BOOLEAN :
            LET pos == found[1]
                b1 == CancelAll(book, pos, cSl, cTp, cPt)
                m1 == [m0 EXCEPT !.pos = pos, !.cancels = CancelLog(pos)]
            IN
            IF ~keyOk
            THEN /\ mc' = [m1 EXCEPT !.result = "Instrument key not found"]
                 /\ store' = store
                 /\ book' = b1
            ELSE \E run \in BrokerRuns :
                LET opposite_action == IF pos.action = "BUY" THEN "SELL" ELSE "BUY"
                    exit_order == market_order(manual_remaining_qty(pos), opposite_action)
                    res == Place(b1, Used, symbol, "EXIT", "MANUAL EXIT", exit_order, run)
                IN
                /\ mc' = [m1 EXCEPT !.placed = <<res.ev>>, !.deleted = res.success,
                                    !.result = IF res.success THEN "closed"
                                               ELSE "Exit order failed"]
                /\ store' = IF res.success THEN delete_position_from_db(store, symbol)
                            ELSE store
                /\ book' = res.book
    /\ UNCHANGED <<wh, ck, po>>

ManualClose == Quiet /\ ManualCloseRequest

\* lines 1073-1076
CloseAllStart ==
    /\ Quiet
    /\ LET active_positions == get_all_positions_from_db(store) IN
       mc' = [McIdle EXCEPT !.pc = "loop", !.op = "close_all",
                            !.active_positions = active_positions,
                            !.todo = DOMAIN active_positions]
    /\ UNCHANGED <<store, book, wh, ck, po>>

\* lines 1078-1106: one position of the loop
CloseAllPosition ==
    /\ mc.pc = "loop"
    /\ \E symbol \in mc.todo, cSl \in BOOLEAN, cTp \in BOOLEAN, cPt \in BOOLEAN, keyOk \in BOOLEAN :
        LET pos == mc.active_positions[symbol]
            b1 == CancelAll(book, pos, cSl, cTp, cPt)
            m1 == [mc EXCEPT !.symbol = symbol, !.pos = pos, !.todo = @ \ {symbol},
                             !.cancels = CancelLog(pos), !.placed = <<>>,
                             !.deleted = FALSE, !.result = ""]
        IN
        IF ~keyOk
        THEN /\ mc' = [m1 EXCEPT !.result = "skipped"]
             /\ store' = store
             /\ book' = Forget(b1, Refs(store', wh, ck, mc'))
        ELSE \E run \in BrokerRuns :
            LET opposite_action == IF pos.action = "BUY" THEN "SELL" ELSE "BUY"
                exit_order == market_order(close_all_remaining_qty(pos), opposite_action)
                res == Place(b1, Used, symbol, "EXIT", "EMERGENCY EXIT ALL", exit_order, run)
            IN
            /\ mc' = [m1 EXCEPT !.placed = <<res.ev>>, !.deleted = res.success,
                                !.result = IF res.success THEN "closed" ELSE "failed"]
            /\ store' = IF res.success THEN delete_position_from_db(store, symbol)
                        ELSE store
            /\ book' = Forget(res.book, Refs(store', wh, ck, mc'))
    /\ UNCHANGED <<wh, ck, po>>

\* lines 1108-1114
CloseAllFinish ==
    /\ mc.pc = "loop"
    /\ mc.todo = {}
    /\ mc' = [mc EXCEPT !.pc = "done"]
    /\ UNCHANGED <<store, book, wh, ck, po>>

\* the response of manual_close or close_all_positions is sent
CloseReturn ==
    /\ mc.pc = "done"
    /\ mc' = McIdle
    /\ LET ids == Refs(store, wh, ck, McIdle)
           bk == Forget(book, ids)
       IN  IF wh.pc = "idle" /\ ck.pc = "idle"
           THEN store' = RenameStore(store, ids) /\ book' = RenameBook(bk, ids)
           ELSE store' = store /\ book' = bk
    /\ UNCHANGED <<wh, ck, po>>

\* the market fills a resting order
BrokerFill ==
    /\ wh.pc = "idle" /\ mc.pc = "idle"
    /\ \E i \in OpenIds(book) : book' = [book EXCEPT ![i].status = "complete"]
    /\ UNCHANGED <<store, wh, ck, mc, po>>

Next ==
    \/ WebhookReceive
    \/ WebhookReversal
    \/ WebhookEntry
    \/ WebhookBracket
    \/ WebhookReturn
    \/ CheckStart
    \/ CheckNext
    \/ CheckPartial
    \/ CheckTp
    \/ CheckSl
    \/ CheckReturn
    \/ ManualClose
    \/ CloseAllStart
    \/ CloseAllPosition
    \/ CloseAllFinish
    \/ CloseReturn
    \/ BrokerFill

Spec == Init /\ [][Next]_vars

(***************************************************************************)
(* place_order on its own: every sequence of broker responses              *)
(***************************************************************************)
InitPlace ==
    /\ store = EmptyStore
    /\ book = EmptyBook
    /\ wh = WhIdle
    /\ ck = CkIdle
    /\ mc = McIdle
    /\ po \in {[pc |-> "call", resps |-> r, success |-> FALSE, attempts |-> 0] :
                r \in [1..MaxResp -> Responses]}

PlaceOrderCall ==
    /\ po.pc = "call"
    /\ LET res == place_order(po.resps, 0) IN
       po' = [po EXCEPT !.pc = "returned", !.success = res.success,
                        !.attempts = res.attempts]
    /\ UNCHANGED <<store, book, wh, ck, mc>>

NextPlace == PlaceOrderCall

SpecPlace == InitPlace /\ [][NextPlace]_vars

(***************************************************************************)
(* check_positions run twice in succession: the second invocation starts   *)
(* when the first returns, and no resting order fills while a tick runs or *)
(* between the two.  The second invocation carries, in ck.first, what the  *)
(* first one did and the store as it left it.                              *)
(***************************************************************************)
IsSecondRun == "first" \in DOMAIN ck

\* line 904 of the first invocation, then line 806 of the next one
CheckStartAgain ==
    /\ ck.pc = "done" /\ wh.pc = "idle" /\ mc.pc = "idle"
    /\ ~IsSecondRun
    /\ LET active_positions == get_all_positions_from_db(store) IN
       ck' = [first |-> [store |-> store, branch |-> ck.branch, deleted |-> ck.deleted,
                         saves |-> ck.saves, placed |-> ck.placed]]
             @@ [CkIdle EXCEPT !.pc = "loop", !.active_positions = active_positions,
                               !.todo = DOMAIN active_positions]
    /\ UNCHANGED <<store, book, wh, mc, po>>

\* a resting order fills while no handler invocation is running
BrokerFillBetween == Quiet /\ BrokerFill

NextTwice ==
    \/ WebhookReceive
    \/ WebhookReversal
    \/ WebhookEntry
    \/ WebhookBracket
    \/ WebhookReturn
    \/ CheckStart
    \/ CheckNext
    \/ CheckPartial
    \/ CheckTp
    \/ CheckSl
    \/ CheckReturn
    \/ CheckStartAgain
    \/ BrokerFillBetween

SpecTwice == Init /\ [][NextTwice]_vars

(***************************************************************************)
(* One webhook invocation step by step, from the entry order on: every     *)
(* HTTP attempt of place_order and every iteration of the poll loop of     *)
(* verify_order_fill is a step.  po.elapsed is time.time() - start_time in *)
(* seconds; a status request takes between 0 and REQUEST_TIMEOUT seconds.  *)
(* po.todo holds the bracket orders the signal asks for.                   *)
(***************************************************************************)
ORDER_FILL_TIMEOUT == 30

REQUEST_TIMEOUT == 10

RequestDurations == {0, REQUEST_TIMEOUT}

\* line 453: the loop condition of verify_order_fill
poll_continues(elapsed) == elapsed < ORDER_FILL_TIMEOUT

\* lines 454, 463: the clock after a status request of d seconds and the sleep
after_poll_without_sleep(elapsed, d) == elapsed + d

after_poll(elapsed, d) == elapsed + d + 2

\* what get_order_status can return: a status of the broker, or None
PolledStatuses == Statuses \cup {"None"}

BracketLabels == <<"PARTIAL TP (50%)", "FULL TP", "STOP LOSS">>

EntryResults == {"success", "Entry order failed", "Entry not filled",
                 "SL placement failed - emergency exit"}

InitEntry ==
    /\ store = EmptyStore
    /\ book = EmptyBook
    /\ wh = WhIdle
    /\ ck = CkIdle
    /\ mc = McIdle
    /\ \E want \in SUBSET (1..Len(BracketLabels)) :
        po = [pc |-> "place", label |-> "ENTRY ORDER",
              todo |-> SelectSeq(BracketLabels,
                                 LAMBDA l : \E i \in want : BracketLabels[i] = l),
              retry_count |-> 0, attempts |-> 0, elapsed |-> 0,
              status |-> "", timed_out |-> FALSE, filled_qty |-> 0, result |-> ""]

\* webhook after the place_order call for p.label has returned
AfterPlace(p, success) ==
    LET next == [p EXCEPT !.label = Head(p.todo), !.todo = Tail(p.todo),
                          !.retry_count = 0, !.attempts = 0]
        saved == [p EXCEPT !.pc = "returned", !.result = "success"]
    IN
    IF p.label = "ENTRY ORDER"
    THEN IF success THEN [p EXCEPT !.pc = "poll"]
         ELSE [p EXCEPT !.pc = "returned", !.result = "Entry order failed"]
    ELSE IF p.label = "EMERGENCY EXIT"
    THEN [p EXCEPT !.pc = "returned", !.result = "SL placement failed - emergency exit"]
    ELSE IF sl_placement_failed(p.label = "STOP LOSS", success)
    THEN [p EXCEPT !.label = "EMERGENCY EXIT", !.retry_count = 0, !.attempts = 0]
    ELSE IF p.todo = <<>> THEN saved ELSE next

\* lines 487-532: one call level of place_order
EntryPlaceAttempt ==
    /\ po.pc = "place"
    /\ \E r \in Responses :
        IF r = "notoken" THEN po' = AfterPlace(po, FALSE)
        ELSE IF r = "ok" THEN po' = AfterPlace([po EXCEPT !.attempts = @ + 1], TRUE)
        ELSE IF may_retry(po.retry_count)
             THEN po' = [po EXCEPT !.retry_count = @ + 1, !.attempts = @ + 1]
             ELSE po' = AfterPlace([po EXCEPT !.attempts = @ + 1], FALSE)
    /\ UNCHANGED <<store, book, wh, ck, mc>>

\* lines 453-463: one iteration of the poll loop
EntryPollStatus ==
    /\ po.pc = "poll"
    /\ poll_continues(po.elapsed)
    /\ \E status \in PolledStatuses, d \in RequestDurations :
        LET p1 == [po EXCEPT !.status = status] IN
        IF status = "complete" THEN po' = [p1 EXCEPT !.pc = "filled quantity"]
        ELSE IF status \in {"rejected", "cancelled"}
        THEN po' = [p1 EXCEPT !.pc = "returned", !.result = "Entry not filled"]
        ELSE po' = [p1 EXCEPT !.elapsed = after_poll(@, d)]
    /\ UNCHANGED <<store, book, wh, ck, mc>>

\* lines 453, 465-466, 666-669: the loop condition fails
EntryPollTimeout ==
    /\ po.pc = "poll"
    /\ ~poll_continues(po.elapsed)
    /\ po' = [po EXCEPT !.pc = "returned", !.timed_out = TRUE,
                        !.result = "Entry not filled"]
    /\ UNCHANGED <<store, book, wh, ck, mc>>

\* lines 458, 467-485, 666-669: get_filled_quantity after status complete;
\* 0 is also what it returns when the token is missing or its request fails
EntryFilledQuantity ==
    /\ po.pc = "filled quantity"
    /\ \E fq \in 0..MaxQty :
        LET v == [is_filled |-> TRUE, filled_qty |-> fq] IN
        IF ~entry_confirmed(v)
        THEN po' = [po EXCEPT !.pc = "returned", !.result = "Entry not filled"]
        ELSE IF po.todo = <<>>
        THEN po' = [po EXCEPT !.pc = "returned", !.filled_qty = fq, !.result = "success"]
        ELSE po' = [po EXCEPT !.pc = "place", !.filled_qty = fq,
                              !.label = Head(po.todo), !.todo = Tail(po.todo),
                              !.retry_count = 0, !.attempts = 0]
    /\ UNCHANGED <<store, book, wh, ck, mc>>

NextEntry ==
    \/ EntryPlaceAttempt
    \/ EntryPollStatus
    \/ EntryPollTimeout
    \/ EntryFilledQuantity

SpecEntry == InitEntry /\ [][NextEntry]_vars

\* the invocation runs in its own thread, which is scheduled as long as it
\* has a step to take; every blocking call has a timeout
SpecEntryFair == SpecEntry /\ WF_vars(NextEntry)

(***************************************************************************)
(* A manual_close request served while a check_positions tick is running:  *)
(* the handlers run in separate threads (the scheduler's and the request's)*)
(* with no lock, so the request may fall between any two steps of the tick.*)
(***************************************************************************)
ManualCloseDuringTick ==
    /\ ck.pc \in {"loop", "partial", "tp", "sl"}
    /\ wh.pc = "idle" /\ mc.pc = "idle"
    /\ ManualCloseRequest

NextRace ==
    \/ WebhookReceive
    \/ WebhookReversal
    \/ WebhookEntry
    \/ WebhookBracket
    \/ WebhookReturn
    \/ CheckStart
    \/ CheckNext
    \/ CheckPartial
    \/ CheckTp
    \/ CheckSl
    \/ CheckReturn
    \/ ManualCloseDuringTick
    \/ CloseReturn
    \/ BrokerFill

SpecRace == Init /\ [][NextRace]_vars

(***************************************************************************)
(* Two symbols.  The handlers are run for TEST while the store holds the   *)
(* record of a position of OTHER, opened by an earlier webhook invocation  *)
(* with a stop-loss; check_positions visits the stored symbols in any      *)
(* order.  Resting orders fill between invocations.                        *)
(***************************************************************************)
OtherPosition ==
    LET sl_order_data == slm_order(sl_quantity(1), webhook_opposite_action("BUY"), 95) IN
    [position_state("BUY", 1, 1, FreshId({}, "ENTRY")) EXCEPT
        !.sl_order_id = FreshId({}, "SL"), !.sl_order_data = sl_order_data]

InitFrame ==
    /\ store = save_position_to_db(EmptyStore, "OTHER", OtherPosition, TRUE)
    /\ book = AddOrder(EmptyBook, OtherPosition.sl_order_id, "OTHER",
                       OtherPosition.sl_order_data)
    /\ wh = WhIdle
    /\ ck = CkIdle
    /\ mc = McIdle
    /\ po = PoIdle

NextFrame ==
    \/ WebhookReceive
    \/ WebhookReversal
    \/ WebhookEntry
    \/ WebhookBracket
    \/ WebhookReturn
    \/ CheckStart
    \/ CheckNext
    \/ CheckPartial
    \/ CheckTp
    \/ CheckSl
    \/ CheckReturn
    \/ ManualClose
    \/ CloseReturn
    \/ BrokerFillBetween

SpecFrame == InitFrame /\ [][NextFrame]_vars

(***************************************************************************)
(* The store key of a raw symbol.  A string is the sequence of its         *)
(* characters; str.replace, str.strip and str.upper are computed as Python *)
(* computes them (replace is case-sensitive and works left to right).      *)
(* A raw symbol is a spelling of one instrument: optional blanks, an       *)
(* optional NSE: prefix, the name, an optional -EQ suffix, in any case.    *)
(***************************************************************************)
LowerCase == <<"n", "s", "e", "q", "t">>

UpperCase == <<"N", "S", "E", "Q", "T">>

upper_char(c) ==
    IF \E i \in 1..Len(LowerCase) : LowerCase[i] = c
    THEN UpperCase[CHOOSE i \in 1..Len(LowerCase) : LowerCase[i] = c]
    ELSE c

str_upper(str) == [i \in 1..Len(str) |-> upper_char(str[i])]

\* str.replace(old, "")
RECURSIVE str_remove(_, _)
str_remove(str, old) ==
    IF Len(str) < Len(old) THEN str
    ELSE IF SubSeq(str, 1, Len(old)) = old
    THEN str_remove(SubSeq(str, Len(old) + 1, Len(str)), old)
    ELSE <<Head(str)>> \o str_remove(Tail(str), old)

RECURSIVE str_lstrip(_)
str_lstrip(str) ==
    IF str # <<>> /\ Head(str) = " " THEN str_lstrip(Tail(str)) ELSE str

RECURSIVE str_rstrip(_)
str_rstrip(str) ==
    IF str # <<>> /\ str[Len(str)] = " "
    THEN str_rstrip(SubSeq(str, 1, Len(str) - 1)) ELSE str

str_strip(str) == str_rstrip(str_lstrip(str))

EQ_SUFFIX == <<"-", "E", "Q">>

NSE_PREFIX == <<"N", "S", "E", ":">>

\* line 592
webhook_symbol(symbol_raw) ==
    str_upper(str_strip(str_remove(str_remove(symbol_raw, EQ_SUFFIX), NSE_PREFIX)))

\* line 1030
manual_close_symbol(symbol) == str_remove(str_upper(symbol), EQ_SUFFIX)

Blanks == {<<>>, <<" ">>}

Prefixes == {<<>>, <<"N", "S", "E", ":">>, <<"n", "s", "e", ":">>, <<"N", "s", "e", ":">>}

Names == {<<"T", "E", "S", "T">>, <<"t", "e", "s", "t">>, <<"T", "e", "s", "t">>}

Suffixes == {<<>>, <<"-", "E", "Q">>, <<"-", "e", "q">>, <<"-", "E", "q">>}

InitSymbol ==
    /\ store = EmptyStore
    /\ book = EmptyBook
    /\ wh = WhIdle
    /\ ck = CkIdle
    /\ mc = McIdle
    /\ \E b1 \in Blanks, prefix \in Prefixes, name \in Names, suffix \in Suffixes,
          b2 \in Blanks :
        po = [pc |-> "raw", symbol_raw |-> b1 \o prefix \o name \o suffix \o b2,
              name |-> name, symbol |-> <<>>, close_symbol |-> <<>>, found |-> FALSE]

\* lines 591-592, 675-759: webhook opens a position from the raw symbol
SymbolOpen ==
    /\ po.pc = "raw"
    /\ LET symbol == webhook_symbol(po.symbol_raw) IN
        /\ po' = [po EXCEPT !.pc = "stored", !.symbol = symbol]
        /\ store' = save_position_to_db(store, symbol, position_state("BUY", 1, 1, NoId), TRUE)
    /\ UNCHANGED <<book, wh, ck, mc>>

\* lines 1028-1034: manual_close is called with the same raw symbol
SymbolClose ==
    /\ po.pc = "stored"
    /\ LET symbol == manual_close_symbol(po.symbol_raw)
           pos == get_position_from_db(store, symbol)
       IN  po' = [po EXCEPT !.pc = "looked up", !.close_symbol = symbol,
                            !.found = (pos # <<>>)]
    /\ UNCHANGED <<store, book, wh, ck, mc>>

NextSymbol ==
    \/ SymbolOpen
    \/ SymbolClose

SpecSymbol == InitSymbol /\ [][NextSymbol]_vars

(***************************************************************************)
(* Properties                                                              *)
(***************************************************************************)
Events(log, label) == SelectSeq(log, LAMBDA e : e.label = label)

Opposite(action) == IF action = "BUY" THEN "SELL" ELSE "BUY"

\* the webhook invocation has returned after its entry was filled with
\* quantity wh.position_state.filled_qty
WhFilledDone == wh.pc = "done" /\ wh.position_state.filled_qty > 0

WhSlFailed ==
    /\ WhFilledDone
    /\ \E i \in 1..Len(wh.placed) :
        wh.placed[i].label = "STOP LOSS" /\ ~wh.placed[i].success

C2_NeverUnprotected ==
    /\ (wh.pc = "done" /\ wh.result = "success") =>
          ((wh.position_state.sl_order_id # NoId)
              # (Events(wh.placed, "EMERGENCY EXIT") # <<>>))
    /\ \A s \in DOMAIN store : store[s].sl_order_id # NoId

\* the reversal step of webhook has just run
WhReversed == wh.pc = "entry" /\ wh.existing_position # <<>>

\* C3: the market exit order of a reversal has the transaction type opposite to
\* the stored direction of the existing position.
C3_ReversalExitClosesOldPosition ==
    WhReversed =>
        Events(wh.placed, "REVERSAL EXIT")[1].data.transaction_type
            = Opposite(wh.existing_position[1].action)

Remaining(pos) == pos.filled_qty - pos.partial_order_data.quantity

\* C4: every exit sized from a stored Position whose partial_filled flag is true
\* (reversal exit, manual_close, close_all, replacement stop-loss and emergency
\* exit of check_positions) has quantity filled_qty minus the partial-TP order
\* quantity.
C4_ExitsUseRemainingQuantity ==
    /\ (WhReversed /\ wh.existing_position[1].partial_filled) =>
          Events(wh.placed, "REVERSAL EXIT")[1].data.quantity
              = Remaining(wh.existing_position[1])
    /\ (mc.pc \in {"loop", "done"} /\ mc.pos.partial_filled) =>
          \A i \in 1..Len(mc.placed) : mc.placed[i].data.quantity = Remaining(mc.pos)
    /\ (ck.pc = "tp" /\ ck.branch # "") =>
          \A i \in 1..Len(ck.placed) :
              ck.placed[i].data.quantity = Remaining(ck.active_positions[ck.symbol])

\* the first accepted attempt of a response sequence within n attempts, 0 when
\* none is accepted or the access token is missing before it
AcceptedWithin(resps, n) ==
    LET ks == {k \in 1..n : /\ Resp(resps, k) = "ok"
                            /\ \A j \in 1..(k - 1) : Resp(resps, j) \in {"fail", "exc"}}
    IN  IF ks = {} THEN 0 ELSE CHOOSE k \in ks : TRUE

\* C5 (as stated): place_order makes at most 3 placement attempts, returns a
\* failure once they are exhausted, and returns success as soon as one attempt
\* is accepted.
C5_AtMostThreeAttempts ==
    po.pc = "returned" =>
        /\ po.attempts <= 3
        /\ po.success <=> AcceptedWithin(po.resps, 3) # 0

\* C5 (amended): place_order makes at most MAX_ORDER_RETRIES + 1 = 4 placement
\* attempts (the first one and up to 3 retries), returns a failure once they are
\* exhausted, and returns success as soon as one attempt is accepted.
C5_AtMostFourAttempts ==
    po.pc = "returned" =>
        LET k == AcceptedWithin(po.resps, MAX_ORDER_RETRIES + 1) IN
        /\ po.attempts <= MAX_ORDER_RETRIES + 1
        /\ po.success <=> k # 0
        /\ po.success => po.attempts = k
        /\ (\A j \in 1..(MAX_ORDER_RETRIES + 1) : Resp(po.resps, j) \in {"fail", "exc"})
              => (~po.success /\ po.attempts = MAX_ORDER_RETRIES + 1)

C5_Witness ==
    /\ po.pc = "returned"
    /\ ~po.success
    /\ po.attempts = MAX_ORDER_RETRIES + 1

\* check_positions has just handled a partial take-profit it found complete,
\* for a position that carried a stop-loss
CkPartialHandled == ck.pc = "tp" /\ ck.branch \notin {"", "no sl"}

CkBefore == ck.active_positions[ck.symbol]

OpenStopLosses(symbol, quantity) ==
    {i \in DOMAIN book : /\ book[i].status = "open"
                         /\ book[i].symbol = symbol
                         /\ book[i].data.order_type = "SL-M"
                         /\ book[i].data.quantity = quantity}

\* C6 (as stated): when check_positions observes the partial take-profit
\* complete for the first time, the old stop-loss is cancelled, a new stop-loss
\* is placed at the same trigger price for filled_qty minus the partial
\* quantity, the stored record refers to the new order, and no stop-loss for
\* the original full quantity remains.
C6_StopLossReplaced ==
    CkPartialHandled =>
        LET sl == Events(ck.placed, "ADJUSTED SL") IN
        /\ ck.cancels = <<CkBefore.sl_order_id>>
        /\ Len(sl) = 1
        /\ sl[1].success
        /\ sl[1].data = slm_order(Remaining(CkBefore), Opposite(CkBefore.action),
                                  CkBefore.sl_order_data.trigger_price)
        /\ ck.symbol \in DOMAIN store
        /\ store[ck.symbol].sl_order_id = sl[1].order_id
        /\ OpenStopLosses(ck.symbol, CkBefore.filled_qty) = {}

\* C6 (amended): when check_positions observes the partial take-profit of a
\* position with a stop-loss complete for the first time, it issues one cancel
\* for the old stop-loss and, if the instrument key resolves, one placement of a
\* new stop-loss at the same trigger price for filled_qty minus the partial
\* quantity.  If that placement succeeds, the record it writes refers to the
\* new order with the reduced quantity, and with a successful cancel no open
\* stop-loss for the original full quantity remains.  If the placement fails
\* the record keeps the old stop-loss id; if the key does not resolve nothing
\* is placed.
C6_StopLossReplacedWhenPlaced ==
    CkPartialHandled =>
        LET sl == Events(ck.placed, "ADJUSTED SL") IN
        /\ ~CkBefore.partial_filled /\ ck.pos.partial_filled
        /\ ck.cancels = <<CkBefore.sl_order_id>>
        /\ ck.branch = "no key" => ck.placed = <<>>
        /\ ck.branch # "no key" =>
            /\ Len(sl) = 1
            /\ sl[1].data = slm_order(Remaining(CkBefore), Opposite(CkBefore.action),
                                      CkBefore.sl_order_data.trigger_price)
            /\ ck.branch = "replaced" <=> sl[1].success
        /\ ck.branch = "replaced" =>
            /\ ck.pos.sl_order_id = sl[1].order_id
            /\ ck.pos.sl_order_id # CkBefore.sl_order_id
            /\ ck.pos.sl_order_data.quantity = Remaining(CkBefore)
            /\ ck.saves = 1 => (ck.symbol \in DOMAIN store /\ store[ck.symbol] = ck.pos)
            /\ CkBefore.sl_order_id \notin OpenIds(book) =>
                  OpenStopLosses(ck.symbol, CkBefore.filled_qty) = {}
        /\ ck.branch # "replaced" => ck.pos.sl_order_id = CkBefore.sl_order_id

C6_Witness ==
    /\ CkPartialHandled
    /\ ck.branch = "replaced"
    /\ CkBefore.filled_qty = 3
    /\ ck.saves = 1
    /\ store[ck.symbol].sl_order_data.quantity = 2
    /\ OpenStopLosses(ck.symbol, 3) = {}

\* C7: after a partial fill is recorded for a position with a stop-loss, either
\* a live stop-loss of the position exists or an emergency exit
\* market order for the remaining quantity has been placed; a failed
\* replacement stop-loss always triggers the emergency exit.
C7_ProtectionNeverLapses ==
    CkPartialHandled =>
        LET sl == Events(ck.placed, "ADJUSTED SL")
            em == Events(ck.placed, "EMERGENCY EXIT")
        IN
        /\ \/ \E q \in 1..MaxQty : OpenStopLosses(ck.symbol, q) # {}
           \/ /\ em # <<>>
              /\ em[1].data = market_order(Remaining(CkBefore), Opposite(CkBefore.action))
        /\ (sl # <<>> /\ ~sl[1].success) => em # <<>>

\* C8: a Position record is deleted whenever the position is fully closed; in
\* particular after check_positions performed an emergency exit for a symbol,
\* the store holds no record for that symbol.
C8_RecordDeletedAfterEmergencyExit ==
    (/\ ck.pc \in {"tp", "sl", "loop"}
     /\ ck.branch = "emergency"
     /\ Events(ck.placed, "EMERGENCY EXIT")[1].success)
        => ck.symbol \notin DOMAIN store

\* C9: webhook never leaves a partial or full take-profit order open at the
\* broker after it has unwound the position with an emergency exit.
C9_NoTakeProfitLeftAfterUnwind ==
    (WhSlFailed /\ wh.result = "SL placement failed - emergency exit") =>
        \A i \in 1..Len(wh.placed) :
            (wh.placed[i].label \in {"PARTIAL TP (50%)", "FULL TP"} /\ wh.placed[i].success)
                => wh.placed[i].order_id \notin OpenIds(book)

\* C10: with entry fill f, a partial take-profit order is placed only when the
\* partial price is nonzero and f >= 2, with quantity f div 2; the full
\* take-profit quantity is f minus that partial quantity (f when no partial
\* order is placed); the stop-loss quantity is f; the record stores
\* filled_qty = f and partial_filled = FALSE.
C10_BracketQuantities ==
    (WhFilledDone /\ wh.result \in {"success", "SL placement failed - emergency exit"}) =>
        LET f == wh.position_state.filled_qty
            pt == Events(wh.placed, "PARTIAL TP (50%)")
            tp == Events(wh.placed, "FULL TP")
            sl == Events(wh.placed, "STOP LOSS")
            q == IF pt # <<>> THEN pt[1].data.quantity ELSE 0
        IN
        /\ pt # <<>> <=> (wh.partial_tp_price # 0 /\ f >= 2)
        /\ pt # <<>> => (Len(pt) = 1 /\ pt[1].data =
                            limit_order(f \div 2, Opposite(wh.action), wh.partial_tp_price))
        /\ tp # <<>> <=> wh.tp_price # 0
        /\ tp # <<>> => (Len(tp) = 1 /\ tp[1].data =
                            limit_order(f - q, Opposite(wh.action), wh.tp_price))
        /\ sl # <<>> <=> wh.sl_price # 0
        /\ sl # <<>> => (Len(sl) = 1 /\ sl[1].data =
                            slm_order(f, Opposite(wh.action), wh.sl_price))
        /\ wh.saved =>
            /\ store[wh.symbol].filled_qty = f
            /\ store[wh.symbol].partial_filled = FALSE
            /\ store[wh.symbol] = wh.position_state

C10_Witness ==
    /\ WhFilledDone
    /\ wh.saved
    /\ wh.position_state.filled_qty = 3
    /\ wh.qty_requested = 3
    /\ Events(wh.placed, "PARTIAL TP (50%)") # <<>>
    /\ Events(wh.placed, "FULL TP") # <<>>
    /\ Events(wh.placed, "STOP LOSS") # <<>>
    /\ Events(wh.placed, "PARTIAL TP (50%)")[1].data.quantity = 1
    /\ Events(wh.placed, "FULL TP")[1].data.quantity = 2
    /\ Events(wh.placed, "STOP LOSS")[1].data.quantity = 3
    /\ store[wh.symbol].filled_qty = 3

\* C11: check_positions is idempotent: when it has handled a fill for a
\* position (the partial take-profit branch, or a deletion) and is run again
\* with no order-status change, the second run places no order and leaves the
\* stored records as the first run left them.
C11_ReconcileIdempotent ==
    (IsSecondRun /\ (ck.first.branch # "" \/ ck.first.deleted)) =>
        /\ ck.placed = <<>>
        /\ store = ck.first.store

\* the reversal exit order of the running webhook invocation was not accepted:
\* the entry of the old position is still filled and not closed
OldEntryStillOpen ==
    /\ WhReversed
    /\ ~Events(wh.placed, "REVERSAL EXIT")[1].success

\* C12: a symbol never has more than one filled, not yet closed entry, also
\* when a reversal is performed: while the entry of the old position is still
\* open, webhook does not get a new entry for the symbol filled.
C12_OneOpenPositionPerSymbol ==
    [][OldEntryStillOpen => wh'.position_state.filled_qty = 0]_vars

StatusAtBroker(order_id) ==
    IF order_id \in DOMAIN book THEN book[order_id].status ELSE "none"

SlHitStep ==
    /\ ck.pc = "sl" /\ ck'.pc = "loop"
    /\ (ck'.deleted # ck.deleted \/ ck'.cancels # ck.cancels \/ store' # store)

ValidationFailures == {"Invalid action", "Market closed", "Symbol not found"}

\* C15: a signal that fails validation (action not BUY or SELL, market closed,
\* unresolved symbol) makes webhook return a failure without placing or
\* cancelling any order and without creating, changing or deleting any
\* Position record; a signal whose action is not BUY or SELL always fails
\* validation.
C15_RejectedSignalHasNoEffect ==
    [][/\ (wh.pc = "idle" /\ wh'.pc # "idle") =>
            /\ wh'.action \notin {"BUY", "SELL"} =>
                  (wh'.pc = "done" /\ wh'.result = "Invalid action")
            /\ wh'.pc = "done" =>
                  /\ wh'.result \in ValidationFailures
                  /\ wh'.placed = <<>> /\ wh'.cancels = <<>> /\ ~wh'.saved
                  /\ store' = store /\ book' = book
       /\ (wh.pc = "done" /\ wh.result \in ValidationFailures /\ wh'.pc = "idle") =>
            (store' = store /\ book' = book)
      ]_vars

C15_Witness ==
    /\ wh.pc = "done"
    /\ wh.result = "Symbol not found"
    /\ wh.placed = <<>>
    /\ wh.symbol \in DOMAIN store
    /\ OpenIds(book) # {}

EntryFailures == {"Entry order failed", "Entry not filled"}

\* C16: when the entry order placement fails, or the entry order is rejected,
\* cancelled or not confirmed within the poll window, webhook returns a
\* failure, places no bracket order and persists no Position record; bracket
\* orders are placed only for an entry confirmed with a nonzero filled
\* quantity.
C16_UnfilledEntryOpensNothing ==
    /\ (wh.pc = "done" /\ wh.result \in EntryFailures) =>
          /\ Len(wh.placed) = 1
          /\ wh.placed[1].label = "ENTRY ORDER"
          /\ wh.placed[1].success <=> wh.result = "Entry not filled"
          /\ wh.position_state = NoPos
          /\ ~wh.saved
          /\ wh.symbol \notin DOMAIN store
    /\ (wh.pc \in {"bracket", "done"} /\ wh.placed # <<>> /\ ~wh.placed[1].success) =>
          (wh.pc = "done" /\ wh.result = "Entry order failed")
    /\ (wh.pc = "bracket" \/ Len(wh.placed) > 1 \/ wh.saved) =>
          /\ wh.placed[1].label = "ENTRY ORDER" /\ wh.placed[1].success
          /\ wh.position_state.filled_qty > 0
          /\ wh.position_state.filled_qty <= wh.qty_requested

C16_Witness ==
    /\ wh.pc = "done"
    /\ wh.result = "Entry not filled"
    /\ wh.placed[1].success
    /\ wh.qty_requested = 2
    /\ wh.symbol \notin DOMAIN store

McHandled == mc.pc \in {"loop", "done"} /\ mc.pos # NoPos

McExit(pos) == market_order(IF pos.partial_filled THEN Remaining(pos) ELSE pos.filled_qty,
                            Opposite(pos.action))

LabelRank(label) ==
    CASE label = "REVERSAL EXIT" -> 0
      [] label = "ENTRY ORDER" -> 1
      [] label = "PARTIAL TP (50%)" -> 2
      [] label = "FULL TP" -> 3
      [] label = "STOP LOSS" -> 4
      [] OTHER -> 5

\* C19: within one webhook invocation the entry fill is verified before any
\* bracket order is placed, the partial and full take-profit placements come
\* before the stop-loss placement, and the Position record is persisted only
\* after the stop-loss placement has succeeded or was not requested.
C19_OpenPositionOrdering ==
    LET sl == Events(wh.placed, "STOP LOSS") IN
    /\ \A i, j \in 1..Len(wh.placed) :
          i < j => LabelRank(wh.placed[i].label) < LabelRank(wh.placed[j].label)
    /\ (\E i \in 1..Len(wh.placed) : LabelRank(wh.placed[i].label) \in 2..5) =>
          /\ wh.placed[1].label = "ENTRY ORDER" /\ wh.placed[1].success
          /\ wh.position_state.filled_qty > 0
    /\ wh.saved =>
          /\ wh.pc = "done" /\ wh.result = "success"
          /\ IF wh.sl_price = 0 THEN sl = <<>> ELSE (Len(sl) = 1 /\ sl[1].success)
    /\ (wh.pc = "done" /\ wh.symbol \in DOMAIN store) =>
          (sl = <<>> \/ sl[1].success)

C19_Witness ==
    /\ wh.pc = "done" /\ wh.saved
    /\ Len(wh.placed) = 4
    /\ wh.placed[2].label = "PARTIAL TP (50%)"
    /\ wh.placed[3].label = "FULL TP"
    /\ wh.placed[4].label = "STOP LOSS" /\ wh.placed[4].success
    /\ store[wh.symbol].sl_order_id = wh.placed[4].order_id

\* C20: every path on which webhook returns a failure (invalid action, market
\* closed, unresolved symbol, entry placement failure, entry not filled,
\* stop-loss placement failure) sends a notification before returning.
C20_EveryFailureNotifies ==
    (wh.pc = "done" /\ wh.result # "success") => wh.alert # ""

\* C21: the filled_qty of a stored Position is set once, when webhook persists
\* the record, and no later step (check_positions included, with its partial
\* branch) changes it while the record exists.
C21_FilledQuantitySetOnce ==
    [][\A s \in DOMAIN store' :
          IF s \in DOMAIN store
          THEN store'[s].filled_qty = store[s].filled_qty
          ELSE /\ wh.pc = "bracket" /\ wh.symbol = s
               /\ store'[s].filled_qty = wh.position_state.filled_qty
               /\ store'[s].filled_qty \in 1..wh.qty_requested
      ]_vars

C21_Witness ==
    /\ ck.pc = "tp"
    /\ ck.branch = "replaced"
    /\ ck.saves = 1
    /\ store[ck.symbol].partial_filled
    /\ store[ck.symbol].filled_qty = 3
    /\ store[ck.symbol].sl_order_data.quantity = 2

\* C23: the full take-profit order webhook places has quantity filled_qty minus
\* the quantity of the partial take-profit order actually placed, counting 0
\* when none was placed, also when its placement was attempted and failed; so
\* the take-profit and partial quantities of a persisted Position sum to
\* filled_qty whenever a take-profit order is present.
C23_TakeProfitCoversTheRest ==
    (WhFilledDone /\ wh.result = "success") =>
        LET f == wh.position_state.filled_qty
            pt == Events(wh.placed, "PARTIAL TP (50%)")
            tp == Events(wh.placed, "FULL TP")
            q == IF pt # <<>> /\ pt[1].success THEN pt[1].data.quantity ELSE 0
        IN
        /\ tp # <<>> => tp[1].data.quantity = f - q
        /\ (wh.saved /\ store[wh.symbol].tp_order_id # NoId) =>
              store[wh.symbol].tp_order_data.quantity
                  + (IF store[wh.symbol].partial_order_id # NoId
                     THEN store[wh.symbol].partial_order_data.quantity ELSE 0) = f

\* C24: whenever webhook returns success, a Position record of the symbol is in
\* the store and holds the entry, stop-loss, take-profit and partial order ids
\* the response reports, also when the store write fails.
C24_SuccessMeansPersisted ==
    (wh.pc = "done" /\ wh.result = "success") =>
        /\ wh.symbol \in DOMAIN store
        /\ store[wh.symbol].entry_order_id = wh.position_state.entry_order_id
        /\ store[wh.symbol].sl_order_id = wh.position_state.sl_order_id
        /\ store[wh.symbol].tp_order_id = wh.position_state.tp_order_id
        /\ store[wh.symbol].partial_order_id = wh.position_state.partial_order_id

\* C26: whenever check_positions deletes a Position record, no bracket order of
\* that position remains open: each of its stop-loss, take-profit and partial
\* take-profit orders is complete or has had a cancel issued for it (the
\* partial take-profit order too, when the full take-profit completes first).
C26_NoBracketLeftOpen ==
    (ck.pc \in {"sl", "loop"} /\ ck.deleted) =>
        \A order_id \in BracketIds(ck.pos) :
            \/ StatusAtBroker(order_id) = "complete"
            \/ order_id \in SeqIds(ck.cancels)

\* C27: manual_close and close_all_positions leave the state unchanged on
\* error: when the exit order fails or the instrument key is not resolved, the
\* record stays and no cancel has been issued for the stop-loss it refers to,
\* which is still live.
C27_FailedCloseChangesNothing ==
    (McHandled /\ ~mc.deleted) =>
        /\ mc.symbol \in DOMAIN store
        /\ store[mc.symbol] = mc.pos
        /\ mc.pos.sl_order_id \notin SeqIds(mc.cancels)
        /\ mc.pos.sl_order_id # NoId => StatusAtBroker(mc.pos.sl_order_id) # "cancelled"

\* C30: every stored Position record satisfies, in every reachable state: the
\* partial take-profit quantity, when present, is floor(filled_qty / 2) and
\* less than filled_qty; the take-profit quantity, when present, is at most
\* filled_qty; the stop-loss quantity, when present, is filled_qty while
\* partial_filled is false, and filled_qty minus the partial quantity once the
\* stop-loss has been replaced after the partial fill.
C30_StoredQuantities ==
    /\ \A s \in DOMAIN store :
        LET pos == store[s]
            f == pos.filled_qty
        IN
        /\ f \in 1..pos.qty_requested
        /\ pos.partial_order_id # NoId =>
              /\ pos.partial_order_data.quantity = f \div 2
              /\ pos.partial_order_data.quantity \in 1..(f - 1)
        /\ pos.tp_order_id # NoId => pos.tp_order_data.quantity \in 1..f
        /\ pos.sl_order_id # NoId =>
              /\ ~pos.partial_filled => pos.sl_order_data.quantity = f
              /\ pos.partial_filled =>
                    pos.sl_order_data.quantity \in {f, f - pos.partial_order_data.quantity}
        /\ pos.partial_filled => pos.partial_order_id # NoId
    /\ (ck.pc = "tp" /\ ck.branch = "replaced" /\ ck.saves = 1) =>
          /\ store[ck.symbol].partial_filled
          /\ store[ck.symbol].sl_order_id # ck.active_positions[ck.symbol].sl_order_id
          /\ store[ck.symbol].sl_order_data.quantity = Remaining(store[ck.symbol])

C30_Witness ==
    /\ ck.pc = "idle"
    /\ "TEST" \in DOMAIN store
    /\ store["TEST"].partial_filled
    /\ store["TEST"].filled_qty = 3
    /\ store["TEST"].partial_order_data.quantity = 1
    /\ store["TEST"].tp_order_data.quantity = 2
    /\ store["TEST"].sl_order_data.quantity = 2

\* C22: when the poll of the entry order observes status complete, webhook
\* goes on to place the bracket; it returns 'Entry not filled' only when the
\* order was rejected or cancelled or the poll timed out, never after complete
\* was observed.
C22_NotFilledOnlyWhenNotComplete ==
    (po.pc = "returned" /\ po.result = "Entry not filled") =>
        /\ po.status # "complete"
        /\ po.timed_out \/ po.status \in {"rejected", "cancelled"}

\* C28: every webhook invocation terminates, with success or with a failure,
\* whatever the broker does: the fill poll stops at the latest when
\* ORDER_FILL_TIMEOUT has elapsed, even if the status stays pending or
\* unknown, and every place_order call stops retrying after its bound.
C28_OpenPositionTerminates ==
    /\ <>(po.pc = "returned" /\ po.result \in EntryResults)
    /\ [](po.attempts <= MAX_ORDER_RETRIES + 1)
    /\ [](po.elapsed < ORDER_FILL_TIMEOUT + REQUEST_TIMEOUT + 2)

C28_Witness ==
    /\ po.pc = "returned"
    /\ po.timed_out
    /\ po.status \in {"pending", "unknown", "None"}
    /\ po.elapsed = ORDER_FILL_TIMEOUT
    /\ po.result = "Entry not filled"

\* C25: a Position record is only ever created by webhook: once manual_close
\* (or close_all_positions, or a reversal) has deleted the record, a
\* check_positions tick that read its snapshot before the deletion never
\* writes that record back.
C25_OnlyOpenPositionCreates ==
    [][\A s \in (DOMAIN store') \ (DOMAIN store) : wh.pc = "bracket" /\ wh.symbol = s]_vars

\* the step being taken is a step of a handler working on symbol s
ActingOn(s) ==
    \/ wh.pc \in {"reversal", "bracket"} /\ wh.symbol = s
    \/ ck.pc \in {"partial", "tp", "sl"} /\ ck.symbol = s
    \/ Quiet /\ mc'.pc = "done" /\ mc'.op = "manual_close" /\ mc'.symbol = s

\* an invocation returns: the order ids may be renamed, nothing else changes
Returning == wh.pc = "done" \/ ck.pc = "done" \/ mc.pc = "done"

Anon(pos) == RenamePos(pos, {})

\* C29: operations on one symbol leave the records of all other symbols
\* unchanged: webhook and manual_close for a symbol never create, modify or
\* delete the record of another symbol, and within a check_positions tick the
\* handling of one symbol touches only that symbol's record and orders, so
\* that its outcome does not depend on which other symbols are stored or on
\* the order in which they are visited.
C29_OtherSymbolsUntouched ==
    [][/\ \A s \in (DOMAIN store) \cup (DOMAIN store') :
            IF Returning
            THEN /\ s \in DOMAIN store /\ s \in DOMAIN store'
                 /\ Anon(store'[s]) = Anon(store[s])
            ELSE \/ ActingOn(s)
                 \/ s \in DOMAIN store /\ s \in DOMAIN store' /\ store'[s] = store[s]
       /\ ~Returning =>
            /\ \A i \in (DOMAIN book') \ (DOMAIN book) : ActingOn(book'[i].symbol)
            /\ \A i \in (DOMAIN book') \cap (DOMAIN book) :
                  \/ book'[i] = book[i]
                  \/ ActingOn(book[i].symbol)
                  \/ (Quiet /\ UNCHANGED <<wh, ck, mc>>)
       /\ (ck.pc = "loop" /\ ck'.pc = "partial") =>
            /\ ck'.pos = ck.active_positions[ck'.symbol]
            /\ ck'.active_positions = ck.active_positions
       /\ (ck.pc \in {"partial", "tp", "sl"}) =>
            /\ ck'.symbol = ck.symbol
            /\ ck'.todo = ck.todo
            /\ ck'.active_positions = ck.active_positions
      ]_vars

C29_Witness ==
    /\ ck.pc = "loop"
    /\ ck.symbol = "TEST"
    /\ ck.deleted
    /\ ck.placed # <<>>
    /\ ck.todo = {"OTHER"}
    /\ DOMAIN store = {"OTHER"}
    /\ store["OTHER"] = OtherPosition

\* C31: the store key derived from a raw symbol is the same in webhook and in
\* manual_close for every spelling of the same instrument (upper or lower
\* case, with or without the NSE: prefix, with or without the -EQ suffix): it
\* is uppercase with prefix and suffix stripped, so a position opened from a
\* raw symbol is found by manual_close called with that same raw symbol.
C31_SameStoreKey ==
    /\ po.pc \in {"stored", "looked up"} => po.symbol = str_upper(po.name)
    /\ po.pc = "looked up" =>
          /\ po.close_symbol = po.symbol
          /\ po.found

====
